---- MODULE Spec2Model ----
(***************************************************************************)
(* A model of the queue-crawler resolution scheduler: the call-coalescing  *)
(* AsyncQueue, the two-level QueryQueue, the Resolution classes and the    *)
(* ResolutionQueue driver, executed by an asyncio-style event loop (a FIFO *)
(* queue of ready handles; every step runs one task from one suspension    *)
(* point to the next).                                                     *)
(*                                                                         *)
(* Hostnames are sequences of labels, most specific first: "." is <<>>,    *)
(* "a." is <<"a">>.  Formatted ids (Resolution.id, Query.id, NSR._key,     *)
(* QueryBlock.id) are modelled by the tuples/bags they are injective       *)
(* images of.                                                              *)
(***************************************************************************)
EXTENDS Integers, Sequences, FiniteSets, TLC

(***************************************************************************)
(* Bounds of the model.                                                    *)
(***************************************************************************)
\* longest input hostname list handed to the manager
MaxInputLen == 2
\* resolve tasks the driver may spawn for one resolution before the model
\* stops spawning further ones (the code has no such limit)
MaxResolveTasks == 3

(***************************************************************************)
(* Names, addresses, resolution identities.                                *)
(***************************************************************************)
Root == <<>>
HostA == <<"a">>
HostB == <<"b">>
\* a.b.e. and the names around it: its zone e., b.e. in between, n.a.b.e. below it
HostE == <<"e">>
HostBE == <<"b", "e">>
HostABE == <<"a", "b", "e">>
HostNABE == <<"n", "a", "b", "e">>
Hosts == {Root, HostA, HostB, HostE, HostBE, HostABE, HostNABE}
RootIP == "198.41.0.4"
IpA == "10.0.0.1"
IpB == "10.0.0.2"

ResTypes == {"IP", "AuthNS", "ShallowIP", "ShallowAuthNS"}
Statuses == {"PENDING", "ACTIVE", "QUERYING", "BLOCKED", "DONE", "TIMEOUT"}

\* Resolution.id() / Resolution._key(): both are determined by (hostname, res_type)
ResId(hostname, res_type) == [h |-> hostname, t |-> res_type]
NoRes == [h |-> Root, t |-> "none"]
Res == {ResId(h, t) : h \in Hosts, t \in ResTypes}

Range(s) == {s[i] : i \in 1..Len(s)}
\* the multiset of a list: what "_".join(sorted(l)) and ";".join(sorted(l)) determine
BagOf(s) == [e \in Range(s) |-> Cardinality({i \in 1..Len(s) : s[i] = e})]

(***************************************************************************)
(* dns_utils.py                                                            *)
(***************************************************************************)
get_parent_domain(domain) == IF Len(domain) = 0 THEN Root ELSE Tail(domain)

is_superdomain(domain, superdomain, include_identical) ==
    \/ superdomain = Root
    \/ include_identical /\ domain = superdomain
    \/ /\ Len(superdomain) < Len(domain)
       /\ SubSeq(domain, Len(domain) - Len(superdomain) + 1, Len(domain)) = superdomain

\* [found, name]: the longest superdomain in the list, or found = FALSE (None)
closest_superdomain(domain, superdomain_list, include_identical) ==
    LET cands == {s \in Range(superdomain_list) : is_superdomain(domain, s, include_identical)}
    IN IF cands = {} THEN [found |-> FALSE, name |-> Root]
       ELSE [found |-> TRUE,
             name |-> CHOOSE s \in cands : \A t \in cands : Len(t) <= Len(s)]

(***************************************************************************)
(* nsr.py, host.py                                                         *)
(***************************************************************************)
NSR(hostname, ips) == [hostname |-> hostname, ips |-> ips]
NSRKey(nsr) == [h |-> nsr.hostname, ips |-> BagOf(nsr.ips)]

\* NSRBlock.add on the insertion-ordered _nsr_data
NSRBlockAdd(nsrs, nsr) ==
    IF \E i \in 1..Len(nsrs) : NSRKey(nsrs[i]) = NSRKey(nsr) THEN nsrs ELSE Append(nsrs, nsr)

RECURSIVE NSRBlockAddAll(_, _)
NSRBlockAddAll(nsrs, nsr_list) ==
    IF nsr_list = <<>> THEN nsrs
    ELSE NSRBlockAddAll(NSRBlockAdd(nsrs, Head(nsr_list)), Tail(nsr_list))

NSRBlock(name, nsr_list) == [name |-> name, nsrs |-> NSRBlockAddAll(<<>>, nsr_list)]
EmptyBlock(name) == NSRBlock(name, <<>>)

NSRNames(block) == {block.nsrs[i].hostname : i \in 1..Len(block.nsrs)}

merge(self, other, join_on) ==
    LET current_nsr_name_set == NSRNames(self)
        other_nsr_name_set == NSRNames(other)
        fromSelf == SelectSeq(self.nsrs, LAMBDA n :
                        join_on \in {"outer", "left"} \/ n.hostname \in other_nsr_name_set)
        fromOther == SelectSeq(other.nsrs, LAMBDA n :
                        join_on \in {"outer", "right"} \/ n.hostname \in current_nsr_name_set)
    IN NSRBlock(self.name, fromSelf \o fromOther)

get_root_nsr_block == NSRBlock(Root, <<NSR(<<"a", "root-servers", "net">>, <<RootIP>>)>>)

(***************************************************************************)
(* query.py                                                                *)
(***************************************************************************)
Query(q, rtype, nsr_ip) == [q |-> q, rtype |-> rtype, nsr_ip |-> nsr_ip]
QueryBlock(q, rtypes, nsr_block) == [q |-> q, rtypes |-> rtypes, nsr_block |-> nsr_block]

RECURSIVE QueriesForIps(_, _, _)
QueriesForIps(q, ips, rtypes) ==
    IF ips = <<>> THEN <<>>
    ELSE [i \in 1..Len(rtypes) |-> Query(q, rtypes[i], Head(ips))]
         \o QueriesForIps(q, Tail(ips), rtypes)

RECURSIVE QueriesForNsrs(_, _, _)
QueriesForNsrs(q, nsrs, rtypes) ==
    IF nsrs = <<>> THEN <<>>
    ELSE QueriesForIps(q, Head(nsrs).ips, rtypes) \o QueriesForNsrs(q, Tail(nsrs), rtypes)

to_query_list(query_block) ==
    QueriesForNsrs(query_block.q, query_block.nsr_block.nsrs, query_block.rtypes)

\* Query.id(): the three fields joined by "/" (a hostname is its sequence of labels)
QueryId(query) == query.q \o <<"/", query.rtype, "/", query.nsr_ip>>
\* QueryBlock.id(): the sorted query ids joined by ";", that is their multiset
QueryBlockId(query_block) ==
    LET query_list == to_query_list(query_block)
    IN BagOf([j \in 1..Len(query_list) |-> QueryId(query_list[j])])

(***************************************************************************)
(* resolver.py: the wire.  A world fixes what the servers hold: the NS     *)
(* names of each zone (in the order the response lists them), the server   *)
(* addresses that attach glue to an NS answer, the A records of each name, *)
(* the names the servers answer with NXDOMAIN, and for each server address *)
(* how many attempts of one query time out before it answers (3 or more:   *)
(* it never answers).  When a reply or a timeout arrives is not fixed.     *)
(***************************************************************************)
NoZones == [h \in Hosts |-> <<>>]
NoAddr == [h \in Hosts |-> <<>>]
ServerIPs == {RootIP, IpA, IpB}
NoTimeouts == [ip \in ServerIPs |-> 0]

\* a. is served by b., b. by a., neither with glue: a delegation loop
LoopWorld == [zones |-> [NoZones EXCEPT ![HostA] = <<HostB>>, ![HostB] = <<HostA>>],
              glue |-> {}, addr |-> NoAddr, nx |-> {}, soa |-> FALSE, timeouts |-> NoTimeouts]
\* a. and b. are served by b.; only the root attaches glue
GlueWorld == [zones |-> [NoZones EXCEPT ![HostA] = <<HostB>>, ![HostB] = <<HostB>>],
              glue |-> {RootIP},
              addr |-> [NoAddr EXCEPT ![HostA] = <<IpA>>, ![HostB] = <<IpB>>],
              nx |-> {}, soa |-> FALSE, timeouts |-> NoTimeouts]
\* as GlueWorld, but a. does not exist
NxWorld == [GlueWorld EXCEPT !.nx = {HostA}]
\* as GlueWorld, but the server of a. and b. answers only the second attempt
FlakyWorld == [GlueWorld EXCEPT !.timeouts = [NoTimeouts EXCEPT ![IpB] = 1]]
\* as GlueWorld, but the server of a. and b. never answers
DeadWorld == [GlueWorld EXCEPT !.timeouts = [NoTimeouts EXCEPT ![IpB] = 3]]
\* an in-zone loop: the root delegates e. to n.a.b.e., a name below a.b.e., without glue
InZoneWorld == [zones |-> [NoZones EXCEPT ![HostE] = <<HostNABE>>],
                glue |-> {},
                addr |-> [NoAddr EXCEPT ![HostABE] = <<IpA>>, ![HostNABE] = <<IpB>>],
                nx |-> {}, soa |-> FALSE, timeouts |-> NoTimeouts]
\* a. does not exist; the root, which answers only the third attempt, delegates e. to
\* b. with glue, and b. never answers
MixWorld == [zones |-> [NoZones EXCEPT ![HostE] = <<HostB>>],
             glue |-> {RootIP},
             addr |-> [NoAddr EXCEPT ![HostB] = <<IpB>>],
             nx |-> {HostA}, soa |-> FALSE,
             timeouts |-> [NoTimeouts EXCEPT ![RootIP] = 2, ![IpB] = 3]]
\* the NS of a. is b., which has no address; the NS of b. and of e. is e., whose address
\* only the root attaches
ShallowWorld == [zones |-> [NoZones EXCEPT ![HostA] = <<HostB>>, ![HostB] = <<HostE>>,
                                          ![HostE] = <<HostE>>],
                 glue |-> {RootIP},
                 addr |-> [NoAddr EXCEPT ![HostE] = <<IpA>>],
                 nx |-> {}, soa |-> FALSE, timeouts |-> NoTimeouts]
Worlds == {LoopWorld, GlueWorld, NxWorld, FlakyWorld, DeadWorld, InZoneWorld, MixWorld,
           ShallowWorld}

\* RR sections of a response, reduced to what the crawler reads: the ns records
\* (owner, target), the a records (owner, address), and whether an soa record is present
DNSResponse(query, status, rcode, ns, a, soa) ==
    [query |-> query, status |-> status, rcode |-> rcode, ns |-> ns, a |-> a, soa |-> soa]
NoDNSResponse == DNSResponse(Query(Root, "none", "none"), "NONE", "NONE", <<>>, <<>>, FALSE)
RR(name, rdata) == [name |-> name, rdata |-> rdata]

\* the records a server at nsr_ip returns for the question, in world w
WireNS(w, query) ==
    IF query.rtype = "NS" /\ query.q \in DOMAIN w.zones
    THEN [i \in 1..Len(w.zones[query.q]) |-> RR(query.q, w.zones[query.q][i])]
    ELSE <<>>
RECURSIVE AddrRecords(_, _)
AddrRecords(w, names) ==
    IF names = <<>> THEN <<>>
    ELSE [i \in 1..Len(w.addr[Head(names)]) |-> RR(Head(names), w.addr[Head(names)][i])]
         \o AddrRecords(w, Tail(names))
WireA(w, query) ==
    IF query.q \notin DOMAIN w.zones THEN <<>>
    ELSE IF query.rtype = "A" THEN AddrRecords(w, <<query.q>>)
    ELSE IF query.nsr_ip \in w.glue THEN AddrRecords(w, w.zones[query.q])
    ELSE <<>>

\* Resolver.query after the retry loop: a reply (query_succeeded) ...
WireReply(w, query) ==
    IF query.q \in w.nx
    THEN DNSResponse(query, "SUCCESS", "NXDOMAIN", <<>>, <<>>, FALSE)
    ELSE DNSResponse(query, "SUCCESS", "NOERROR", WireNS(w, query), WireA(w, query),
                     w.soa /\ WireNS(w, query) = <<>>)
\* ... or three timeouts: status TIMEOUT around an empty Message (rcode NOERROR)
WireTimeout(query) == DNSResponse(query, "TIMEOUT", "NOERROR", <<>>, <<>>, FALSE)
\* retry_count < 3 (resolver.py:89)
RetryLimit == 3

(***************************************************************************)
(* dns_parser.py: DNSRelationMap built by parse_dns_response_NS            *)
(***************************************************************************)
hosts_with_nameservers(response) == [i \in 1..Len(response.ns) |-> response.ns[i].name]

\* the addresses storeA collected for a name, in record order, Host.add dropping repeats
RECURSIVE HostIps(_, _, _)
HostIps(arecs, name, acc) ==
    IF arecs = <<>> THEN acc
    ELSE HostIps(Tail(arecs), name,
                 IF Head(arecs).name = name /\ Head(arecs).rdata \notin Range(acc)
                 THEN Append(acc, Head(arecs).rdata) ELSE acc)

RECURSIVE NsrsOf(_, _, _)
NsrsOf(response, hostname, nsrecs) ==
    IF nsrecs = <<>> THEN <<>>
    ELSE (IF Head(nsrecs).name = hostname
          THEN <<NSR(Head(nsrecs).rdata, HostIps(response.a, Head(nsrecs).rdata, <<>>))>>
          ELSE <<>>) \o NsrsOf(response, hostname, Tail(nsrecs))

\* [found, block]: found = FALSE stands for None
getNSRBlock(response, found, hostname) ==
    IF ~found \/ hostname \notin Range(hosts_with_nameservers(response))
    THEN [found |-> FALSE, block |-> EmptyBlock(Root)]
    ELSE [found |-> TRUE, block |-> NSRBlock(hostname, NsrsOf(response, hostname, response.ns))]

(***************************************************************************)
(* resolution_queue.py: ResolutionResponse                                 *)
(***************************************************************************)
\* data is an NSRBlock (kind "block"), a list of addresses (kind "ips") or None
ResolutionResponse(status, kind, block, ips) ==
    [status |-> status, kind |-> kind, block |-> block, ips |-> ips]
NoResponse == ResolutionResponse("NONE", "none", EmptyBlock(Root), <<>>)
RespBlock(status, block) == ResolutionResponse(status, "block", block, <<>>)
RespIps(status, ips) == ResolutionResponse(status, "ips", EmptyBlock(Root), ips)
RespNoData(status) == ResolutionResponse(status, "none", EmptyBlock(Root), <<>>)

(***************************************************************************)
(* The state.                                                              *)
(*   world, domain_list, crawl_group_size : the wire and the manager input *)
(*   buckets   ResolutionQueue.resolutions: status -> ids, insertion order *)
(*   obj       the Resolution object inserted for each identity            *)
(*   resq, blockq, queryq   the three AsyncQueue instances                 *)
(*   callq     an AsyncQueue driven directly by callers (AQSpec)           *)
(*   task      every asyncio task: its position and its locals             *)
(*   ready     the event loop's FIFO of ready handles                      *)
(*   shutdown  ResolutionQueue._running is set                             *)
(*   shift     ResolutionQueue._queue_shift_tasks                          *)
(*   hist      what happened so far, for the properties                    *)
(***************************************************************************)
VARIABLES world, domain_list, crawl_group_size,
          buckets, obj, resq, blockq, queryq, callq, task, ready, shutdown, shift, hist

cfgvars == <<world, domain_list, crawl_group_size>>
vars == <<world, domain_list, crawl_group_size,
          buckets, obj, resq, blockq, queryq, callq, task, ready, shutdown, shift, hist>>

\* the mutable state as one value, so that a step is a composition of the calls it makes
Machine == [buckets |-> buckets, obj |-> obj, resq |-> resq, blockq |-> blockq,
            queryq |-> queryq, callq |-> callq, task |-> task, ready |-> ready,
            shutdown |-> shutdown, shift |-> shift, hist |-> hist]

Becomes(m) ==
    /\ buckets' = m.buckets /\ obj' = m.obj /\ resq' = m.resq /\ blockq' = m.blockq
    /\ queryq' = m.queryq /\ callq' = m.callq /\ task' = m.task /\ ready' = m.ready
    /\ shutdown' = m.shutdown /\ shift' = m.shift /\ hist' = m.hist
    /\ UNCHANGED cfgvars

(***************************************************************************)
(* Tasks and handles.                                                      *)
(***************************************************************************)
Tid(k, r, n, j) == [k |-> k, r |-> r, n |-> n, j |-> j]
NoTid == Tid("none", NoRes, 0, 0)
MainT == Tid("main", NoRes, 0, 0)
DrvT == Tid("drv", NoRes, 0, 0)
\* the add() coroutine gathered for entry i of crawl group g
TopT(g, i) == Tid("top", NoRes, g, i)
LoadT(r) == Tid("load", r, 0, 0)
\* the n-th resolve task of resolution r
RsvT(r, n) == Tid("rsv", r, n, 0)
\* gather children of a task p: cross-zone _queue_resolution calls, queue_call per query
XzT(p, j) == Tid("xz", p.r, p.n, j)
QtT(p, j) == Tid(IF p.k = "rsv" THEN "qt" ELSE "cqt", p.r, p.n, j)
\* a client of the QueryQueue (QQSpec), a caller of the AsyncQueue (AQSpec)
ClientT(i) == Tid("client", NoRes, i, 0)
CallerT(i) == Tid("caller", NoRes, i, 0)

NoBlockQuery == QueryBlock(Root, <<>>, EmptyBlock(Root))
\* pc: where the task is suspended; the other fields are its locals
NewTask(parent) ==
    [pc |-> "start", parent |-> parent, mode |-> "-", x |-> NoRes, stage |-> 0,
     q |-> Query(Root, "none", "none"), retry_count |-> 0, arrived |-> FALSE,
     blk |-> NoBlockQuery, phase |-> "-", qlist |-> <<>>, names |-> <<>>, bname |-> Root,
     left |-> {}, nkids |-> 0, ret_r |-> NoResponse, ret_d |-> NoDNSResponse,
     ret_l |-> <<>>, val |-> 0]

Step(t) == [k |-> "step", t |-> t]
Gcb(t) == [k |-> "gcb", t |-> t]
\* loop.call_soon
call_soon(m, h) == [m EXCEPT !.ready = Append(@, h)]
RECURSIVE call_soon_all(_, _)
call_soon_all(m, tids) ==
    IF tids = <<>> THEN m ELSE call_soon_all(call_soon(m, Step(Head(tids))), Tail(tids))

Finished(m, t) == t \in DOMAIN m.task /\ m.task[t].pc \in {"done", "crashed"}

\* a task returns (or raises): the done-callback of a gather that waits for it is
\* scheduled, and so is a task that awaits it directly (the manager awaiting the driver)
TaskEnds(m, t, pc) ==
    LET m1 == [m EXCEPT !.task[t].pc = pc]
        p == m.task[t].parent
        m2 == IF p \in DOMAIN m1.task /\ t \in m1.task[p].left
              THEN call_soon(m1, Gcb(t)) ELSE m1
    IN IF t = DrvT /\ MainT \in DOMAIN m2.task /\ m2.task[MainT].pc = "drv"
       THEN call_soon(m2, Step(MainT)) ELSE m2
TaskDone(m, t) == TaskEnds(m, t, "done")
TaskCrashed(m, t) == TaskEnds(m, t, "crashed")

(***************************************************************************)
(* async_queue.py: AsyncQueue.  past_calls is a function on the finished   *)
(* ids, active_calls the set of ids holding an Event, waiters the tasks    *)
(* suspended in Event.wait() of each, in arrival order.                    *)
(***************************************************************************)
AsyncQueue == [past_calls |-> <<>>, active_calls |-> {}, waiters |-> <<>>]
\* variants of the queue's tests and steps: a queue that forgets what it finished,
\* one that sees nothing in flight, one that does not register what it starts
NeverDone(aq, call_id) == FALSE
NeverActive(aq, call_id) == FALSE
NotRegistered(aq, call_id) == aq
BranchWithoutCache(aq, call_id) ==
    IF call_id \in aq.active_calls THEN "active" ELSE "new"

is_done(aq, call_id) == call_id \in DOMAIN aq.past_calls
is_active(aq, call_id) == call_id \in aq.active_calls
is_new(aq, call_id) == ~(is_done(aq, call_id) \/ is_active(aq, call_id))

\* which branch queue_call takes (async_queue.py:31, 34)
QCBranch(aq, call_id) ==
    IF is_active(aq, call_id) THEN "active"
    ELSE IF ~is_done(aq, call_id) THEN "new"
    ELSE "done"
\* async_queue.py:37-38
QCRegister(aq, call_id) ==
    [aq EXCEPT !.active_calls = @ \cup {call_id},
               !.waiters = (call_id :> <<>>) @@ @]
\* async_queue.py:33, suspending
QCWait(aq, call_id, t) == [aq EXCEPT !.waiters[call_id] = Append(@, t)]
\* async_queue.py:40-42; the Event goes away with its last reference
QCStore(aq, call_id, res) ==
    [aq EXCEPT !.past_calls = (call_id :> res) @@ @,
               !.active_calls = @ \ {call_id},
               !.waiters = [c \in DOMAIN @ \ {call_id} |-> @[c]]]
QCWaiters(aq, call_id) == IF call_id \in DOMAIN aq.waiters THEN aq.waiters[call_id] ELSE <<>>
\* async_queue.py:45
QCResult(aq, call_id) == aq.past_calls[call_id]

\* the producer of call_id in queue "qn" has returned res: store, release, wake
QCFinish(m, qn, call_id, res) ==
    LET woken == QCWaiters(m[qn], call_id)
    IN call_soon_all([m EXCEPT ![qn] = QCStore(@, call_id, res)], woken)

(***************************************************************************)
(* resolution_queue.py: Resolution objects                                 *)
(***************************************************************************)
\* Resolution.__init__ (and AuthNSResolution.__init__); kids is _spawned_resolutions:
\* key -> (state, whether the object stored there is the one the scheduler executes)
NewObj(spawned_by, callback) ==
    [exists |-> TRUE, status |-> "PENDING", done |-> FALSE, done_waiters |-> <<>>,
     ready_for_querying |-> FALSE, done_querying |-> FALSE,
     has_target |-> FALSE, query_target_auth_block |-> EmptyBlock(Root),
     result |-> NoResponse,
     has_parent |-> FALSE, auth_parent |-> EmptyBlock(Root),
     has_child |-> FALSE, auth_child |-> EmptyBlock(Root),
     callback |-> callback, spawned_by |-> spawned_by, kids |-> <<>>]
NoObj == [NewObj(NoRes, FALSE) EXCEPT !.exists = FALSE]

IsShallow(r) == r.t \in {"ShallowIP", "ShallowAuthNS"}
IsAuth(r) == r.t \in {"AuthNS", "ShallowAuthNS"}

NoHist ==
    [inserted |-> [r \in Res |-> 0],      \* objects _wait_for put into the tables
     loads |-> [r \in Res |-> 0],         \* load tasks the driver spawned
     resolves |-> [r \in Res |-> 0],      \* resolve tasks the driver spawned
     adds |-> [r \in Res |-> [new |-> 0, active |-> 0, done |-> 0]],
     addret |-> [r \in Res |-> {}],       \* the values add() returned
     trans |-> {},                        \* the status changes made, as <<from, to>>
     rwrites |-> [r \in Res |-> 0],       \* assignments to result
     late |-> {},                         \* <<resolution, field>> assigned while DONE
     callbacks |-> [r \in Res |-> 0],     \* calls of the manager's callback
     wire |-> <<>>,                       \* Resolver.query executions per Query id
     loops |-> {},                        \* <<task, self, other>>: the tree check hit
     hits |-> {},                         \* <<self, other, children maps at that time>>
     requeued |-> {},                     \* <<self, key>>: a DEQUEUED entry set QUEUED again
     addby |-> {},                        \* <<task, identity>>: add() was called
     answers |-> {},                      \* <<resolution, n, res>>: n-th answer to its load
     producers |-> <<>>]                  \* per call id of callq, the producers run

\* an attribute assignment made by a load or resolve task
Assign(m, r, field, value) ==
    LET o == m.obj[r]
    IN [m EXCEPT !.obj[r][field] = value,
                 !.hist.late = IF o.status = "DONE" THEN @ \cup {<<r, field>>} ELSE @,
                 !.hist.rwrites[r] = IF field = "result" THEN @ + 1 ELSE @]
\* self.status = ...
AssignStatus(m, r, new_status) ==
    [m EXCEPT !.obj[r].status = new_status,
              !.hist.trans = IF m.obj[r].status = new_status THEN @
                             ELSE @ \cup {<<m.obj[r].status, new_status>>}]

Remove(seq, e) == SelectSeq(seq, LAMBDA y : y # e)
\* d[key] = value on an insertion-ordered dict whose values are determined by the key
DictPut(seq, e) == IF e \in Range(seq) THEN seq ELSE Append(seq, e)

\* ResolutionQueue.set_resolution_status
set_resolution_status(m, r, new_status, old_status) ==
    LET m1 == [m EXCEPT !.buckets[old_status] = Remove(@, r)]
        m2 == AssignStatus(m1, r, new_status)
    IN [m2 EXCEPT !.buckets[new_status] = DictPut(@, r)]

\* Resolution.finish: _done.set() wakes the tasks in _done.wait(), then the callback
finish(m, r) ==
    LET m1 == call_soon_all(m, m.obj[r].done_waiters)
    IN [m1 EXCEPT !.obj[r].done = TRUE,
                  !.obj[r].done_waiters = <<>>,
                  !.hist.callbacks[r] = IF m.obj[r].callback THEN @ + 1 ELSE @]

\* ResolutionTree.__init__: the spawned_by chain above r, nearest first
RECURSIVE Ancestors(_, _)
Ancestors(m, r) ==
    LET sb == m.obj[r].spawned_by
    IN IF sb = NoRes THEN <<>> ELSE <<sb>> \o Ancestors(m, sb)

\* a variant of the forward walk that follows the entries of any state
RECURSIVE WalkAnyState(_, _, _)
WalkAnyState(m, node, other) ==
    \E key \in DOMAIN m.obj[node].kids :
        \/ other = key
        \/ m.obj[node].kids[key].exec /\ WalkAnyState(m, key, other)

\* Resolution._in_resolution_tree(other, head_found=True)
RECURSIVE ForwardWalk(_, _, _)
ForwardWalk(m, node, other) ==
    \E key \in DOMAIN m.obj[node].kids :
        /\ m.obj[node].kids[key].st = "QUEUED"
        /\ \/ other = key
           \/ m.obj[node].kids[key].exec /\ ForwardWalk(m, key, other)

\* a variant of the tree check that finds nothing
NothingInTree(m, self, other) == FALSE

\* Resolution._in_resolution_tree(other)
in_resolution_tree(m, self, other) ==
    LET resolutions == Ancestors(m, self)
        head == IF Len(resolutions) > 0 THEN resolutions[Len(resolutions)] ELSE self
    IN \/ other \in Range(resolutions)
       \/ ForwardWalk(m, head, other)

LoopDetected == RespNoData("LOOP_DETECTED")

(***************************************************************************)
(* ResolutionQueue.add and _wait_for, Resolution._queue_resolution.        *)
(* Each returns [m, susp, val]: the state after running up to the first    *)
(* suspension (susp) or to the return of val.                              *)
(***************************************************************************)
Ret(m, susp, val) == [m |-> m, susp |-> susp, val |-> val]

\* ResolutionQueue._wait_for up to its suspension in _done.wait(): task t now owns
\* the object inserted for x
wait_for(m, t, x, spawned_by, callback) ==
    LET fresh == NewObj(spawned_by, callback)
    IN [m EXCEPT !.obj[x] = IF @.exists THEN @ ELSE fresh,
                 !.buckets[fresh.status] = DictPut(@, x),
                 !.hist.inserted[x] = @ + 1,
                 !.obj[x].done_waiters = Append(@, t)]

CountAdd(m, x, branch) == [m EXCEPT !.hist.adds[x][branch] = @ + 1]

\* ResolutionQueue.add(resolution) called in task t
add(m, t, x, spawned_by, callback) ==
    LET branch == QCBranch(m.resq, x)
        m0 == [CountAdd(m, x, branch) EXCEPT !.hist.addby = @ \cup {<<t, x>>}]
    IN CASE branch = "active" ->
              Ret([m0 EXCEPT !.resq = QCWait(@, x, t),
                             !.task[t].pc = "add", !.task[t].mode = "wait", !.task[t].x = x],
                  TRUE, NoResponse)
         [] branch = "new" ->
              LET m1 == [m0 EXCEPT !.resq = QCRegister(@, x)]
                  m2 == wait_for(m1, t, x, spawned_by, callback)
              IN Ret([m2 EXCEPT !.task[t].pc = "add", !.task[t].mode = "prod", !.task[t].x = x],
                     TRUE, NoResponse)
         [] OTHER ->
              LET val == QCResult(m0.resq, x)
              IN Ret([m0 EXCEPT !.hist.addret[x] = @ \cup {val}], FALSE, val)

\* task t is woken inside add(x): the rest of _wait_for and of queue_call
add_resume(m, t) ==
    LET x == m.task[t].x
        m1 == IF m.task[t].mode = "prod"
              THEN QCFinish(m, "resq", x, m.obj[x].result)
              ELSE m
        val == QCResult(m1.resq, x)
    IN Ret([m1 EXCEPT !.hist.addret[x] = @ \cup {val}], FALSE, val)

SetKid(m, self, key, st, exec) ==
    LET kids == m.obj[self].kids
        again == st = "QUEUED" /\ key \in DOMAIN kids /\ kids[key].st = "DEQUEUED"
    IN [m EXCEPT !.obj[self].kids = (key :> [st |-> st, exec |-> exec]) @@ @,
                 !.hist.requeued = IF again THEN @ \cup {<<self, key>>} ELSE @]

\* Resolution._queue_resolution(other, queue) called by resolution self in task t
queue_resolution(m, t, self, other) ==
    IF in_resolution_tree(m, self, other)
    THEN Ret([m EXCEPT !.hist.loops = @ \cup {<<t, self, other>>},
                       !.hist.hits = @ \cup {<<self, other, [r \in Res |-> m.obj[r].kids]>>}],
             FALSE, LoopDetected)
    ELSE LET exec == QCBranch(m.resq, other) = "new"
             m1 == SetKid(m, self, other, "QUEUED", exec)
             a == add(m1, t, other, self, FALSE)
         IN IF a.susp THEN a
            ELSE Ret(SetKid(a.m, self, other, "DEQUEUED", exec), FALSE, a.val)

\* task t is woken inside _queue_resolution
queue_resolution_resume(m, t, self) ==
    LET a == add_resume(m, t)
        other == m.task[t].x
    IN Ret(SetKid(a.m, self, other, "DEQUEUED", m.task[t].mode = "prod"), FALSE, a.val)

(***************************************************************************)
(* query_queue.py: QueryQueue                                              *)
(***************************************************************************)
\* the tasks gather() makes of the coroutines of a task t, scheduled in order
RECURSIVE SpawnChildren(_, _, _)
SpawnChildren(m, kids, recs) ==
    IF kids = <<>> THEN m
    ELSE SpawnChildren(call_soon([m EXCEPT !.task = (Head(kids) :> Head(recs)) @@ @],
                                 Step(Head(kids))),
                       Tail(kids), Tail(recs))

\* task t suspends in "await asyncio.gather(...)" of those children
AwaitGather(m, t, pc, kids) ==
    [m EXCEPT !.task[t].pc = pc, !.task[t].left = Range(kids), !.task[t].nkids = Len(kids)]

\* QueryQueue.dispatch_query(query_block) called in task t, up to line 38
dispatch_query(m, t, query_block) ==
    LET queue_call_id == QueryBlockId(query_block)
        query_list == to_query_list(query_block)
        branch == QCBranch(m.blockq, queue_call_id)
        m0 == [m EXCEPT !.task[t].blk = query_block]
    IN CASE branch = "active" ->
              Ret([m0 EXCEPT !.blockq = QCWait(@, queue_call_id, t),
                             !.task[t].pc = "blk", !.task[t].mode = "wait"],
                  TRUE, <<>>)
         [] branch = "new" ->
              LET m1 == [m0 EXCEPT !.blockq = QCRegister(@, queue_call_id)]
                  kids == [j \in 1..Len(query_list) |-> QtT(t, j)]
                  recs == [j \in 1..Len(query_list) |->
                              [NewTask(t) EXCEPT !.q = query_list[j]]]
              IN IF query_list = <<>>
                 \* QueryQueue._query gathers nothing and returns [] at once
                 THEN Ret(QCFinish(m1, "blockq", queue_call_id, <<>>), FALSE, <<>>)
                 ELSE Ret([AwaitGather(SpawnChildren(m1, kids, recs), t, "blk", kids)
                              EXCEPT !.task[t].mode = "prod"],
                          TRUE, <<>>)
         [] OTHER -> Ret(m0, FALSE, QCResult(m0.blockq, queue_call_id))

\* task t is woken inside dispatch_query: the gather of _query is complete, or the
\* Event of the block was set
dispatch_resume(m, t) ==
    LET queue_call_id == QueryBlockId(m.task[t].blk)
        dns_response_list == [j \in 1..m.task[t].nkids |-> m.task[QtT(t, j)].ret_d]
        m1 == IF m.task[t].mode = "prod"
              THEN QCFinish(m, "blockq", queue_call_id, dns_response_list)
              ELSE m
    IN Ret(m1, FALSE, QCResult(m1.blockq, queue_call_id))

\* QueryQueueResponse.data[rtype]: the last response of that rtype in the list
ResponseData(dns_response_list, rtype) ==
    LET idx == {j \in 1..Len(dns_response_list) : dns_response_list[j].query.rtype = rtype}
    IN IF idx = {} THEN [has |-> FALSE, resp |-> NoDNSResponse]
       ELSE [has |-> TRUE,
             resp |-> dns_response_list[CHOOSE j \in idx : \A k \in idx : k <= j]]

\* one more execution of Resolver.query for this Query id
CountWire(m, id) ==
    [m EXCEPT !.hist.wire = IF id \in DOMAIN @ THEN [@ EXCEPT ![id] = @ + 1] ELSE (id :> 1) @@ @]

\* the producer of a query returns: queue_call stores and the gathered task ends
QueryReturns(m, c, q, resp) ==
    LET m1 == QCFinish(m, "queryq", QueryId(q), resp)
    IN TaskDone([m1 EXCEPT !.task[c].ret_d = QCResult(m1.queryq, QueryId(q))], c)

\* a variant of Resolver.query that sends again after every timeout
AlwaysRetries(retry_count) == TRUE

\* Resolver.query: "retry_count < 3" of the loop condition
Retries(retry_count) == retry_count < RetryLimit

\* one step of the task gather() made of _query_queue.queue_call(aqc) for one query
query_task_step(m, c, w) ==
    LET q == m.task[c].q
        pc == m.task[c].pc
        branch == QCBranch(m.queryq, QueryId(q))
    IN CASE pc = "start" /\ branch = "active" ->
              [m EXCEPT !.queryq = QCWait(@, QueryId(q), c), !.task[c].pc = "qwait"]
         [] pc = "start" /\ branch = "new" ->
              \* Resolver.query runs up to "await dnsquery.udp"
              [CountWire([m EXCEPT !.queryq = QCRegister(@, QueryId(q))], QueryId(q))
                  EXCEPT !.task[c].pc = "wire", !.task[c].retry_count = 0,
                         !.task[c].arrived = FALSE]
         [] pc = "wire" /\ m.task[c].retry_count < w.timeouts[q.nsr_ip] ->
              \* dns.exception.Timeout: count, sleep, and send again or give up; the
              \* sleep is time.sleep, which returns within this step
              IF Retries(m.task[c].retry_count + 1)
              THEN [m EXCEPT !.task[c].retry_count = @ + 1, !.task[c].arrived = FALSE]
              ELSE QueryReturns([m EXCEPT !.task[c].retry_count = @ + 1], c, q,
                                WireTimeout(q))
         [] pc = "wire" -> QueryReturns(m, c, q, WireReply(w, q))
         [] OTHER ->
              \* the id was finished at the start, or its Event has been set
              TaskDone([m EXCEPT !.task[c].ret_d = QCResult(m.queryq, QueryId(q))], c)

(***************************************************************************)
(* resolution_queue.py: load_query_target_auth_block of the four classes   *)
(***************************************************************************)
\* a variant of the loads in which the Shallow classes ask for a comprehensive AuthNS
ComprehensiveChild(r) == ResId(IF IsAuth(r) THEN get_parent_domain(r.h) ELSE r.h, "AuthNS")

\* the resolution whose result the load of r asks for first, and after LOOP_DETECTED
LoadChild(r) ==
    ResId(IF IsAuth(r) THEN get_parent_domain(r.h) ELSE r.h,
          IF IsShallow(r) THEN "ShallowAuthNS" ELSE "AuthNS")
LoadRetryChild(r) ==
    ResId(IF IsAuth(r) THEN get_parent_domain(r.h) ELSE r.h, "ShallowAuthNS")

\* self.query_target_auth_block = ...; self.ready_for_querying = True
LoadReady(m, t, r, block) ==
    LET m1 == Assign(m, r, "query_target_auth_block", block)
        m2 == Assign([m1 EXCEPT !.obj[r].has_target = TRUE], r, "ready_for_querying", TRUE)
    IN TaskDone(m2, t)

\* from "if res.status in (ERROR, LOOP_DETECTED)" on
LoadAfter(m, t, r, res) ==
    IF res.status \in {"ERROR", "LOOP_DETECTED"}
    THEN TaskDone(AssignStatus(Assign(m, r, "result", res), r, "DONE"), t)
    ELSE LoadReady(m, t, r, res.block)

\* a variant of the load that does not retry
LoadWithoutRetry(m, t, r, res) == LoadAfter(m, t, r, res)

\* "res = await self._queue_resolution(...)": the n-th value assigned to res
Answer(m, r, n, res) == [m EXCEPT !.hist.answers = @ \cup {<<r, n, res>>}]

\* from "if res.status == LOOP_DETECTED" on (the comprehensive classes only)
LoadAfterFirst(m, t, r, res) ==
    IF ~IsShallow(r) /\ res.status = "LOOP_DETECTED"
    THEN LET a == queue_resolution(m, t, r, LoadRetryChild(r))
         IN IF a.susp THEN [a.m EXCEPT !.task[t].stage = 2]
            ELSE LoadAfter(Answer(a.m, r, 2, a.val), t, r, a.val)
    ELSE LoadAfter(m, t, r, res)

\* one step of the load task t of resolution r
load_query_target_auth_block(m, t, r) ==
    LET pc == m.task[t].pc
    IN CASE pc = "start" ->
              LET m1 == Assign(m, r, "ready_for_querying", FALSE)
              IN IF IsAuth(r) /\ r.h = Root
                 THEN LoadReady(m1, t, r, get_root_nsr_block)
                 ELSE LET a == queue_resolution(m1, t, r, LoadChild(r))
                      IN IF a.susp THEN [a.m EXCEPT !.task[t].stage = 1]
                         ELSE LoadAfterFirst(Answer(a.m, r, 1, a.val), t, r, a.val)
         [] OTHER ->
              LET a == queue_resolution_resume(m, t, r)
              IN IF m.task[t].stage = 1
                 THEN LoadAfterFirst(Answer(a.m, r, 1, a.val), t, r, a.val)
                 ELSE LoadAfter(Answer(a.m, r, 2, a.val), t, r, a.val)

(***************************************************************************)
(* resolution_queue.py: resolve and _resolve_cross_zone_nsrs               *)
(***************************************************************************)
\* self.done_querying = True, the last line of resolve
ResolveEnd(m, t, r) == TaskDone(Assign(m, r, "done_querying", TRUE), t)

SetResult(m, t, r, res) == ResolveEnd(Assign(m, r, "result", res), t, r)

\* the lines after "await self._resolve_cross_zone_nsrs(...)" of either phase
AfterCross(m, t, r, phase, branch_resolved_nsr_block) ==
    IF phase = "parent"
    THEN LET m1 == Assign([m EXCEPT !.obj[r].has_parent = TRUE], r, "auth_parent",
                          branch_resolved_nsr_block)
         IN ResolveEnd(Assign(m1, r, "query_target_auth_block", m1.obj[r].auth_parent), t, r)
    ELSE LET m1 == Assign([m EXCEPT !.obj[r].has_child = TRUE], r, "auth_child",
                          branch_resolved_nsr_block)
             merged_auth_block == merge(m1.obj[r].auth_parent, m1.obj[r].auth_child, "outer")
         IN SetResult(m1, t, r, RespBlock("SUCCESS", merged_auth_block))

\* the hostnames of the entries of a list, each once, in order of first appearance
RECURSIVE DistinctNames(_, _)
DistinctNames(nsrs, seen) ==
    IF nsrs = <<>> THEN <<>>
    ELSE IF Head(nsrs).hostname \in seen THEN DistinctNames(Tail(nsrs), seen)
    ELSE <<Head(nsrs).hostname>> \o DistinctNames(Tail(nsrs), seen \cup {Head(nsrs).hostname})

\* a variant of _resolve_cross_zone_nsrs that returns the block as it was given
CrossZoneKeepsBlock(m, t, r, phase, nsr_block) == AfterCross(m, t, r, phase, nsr_block)

\* _resolve_cross_zone_nsrs(nsr_block) called in the resolve task t of r
resolve_cross_zone_nsrs(m, t, r, phase, nsr_block) ==
    LET queryable_nsr_list == SelectSeq(nsr_block.nsrs, LAMBDA n : Len(n.ips) > 0)
        queryable_nsr_name_set == {queryable_nsr_list[i].hostname :
                                       i \in 1..Len(queryable_nsr_list)}
        missing == SelectSeq(nsr_block.nsrs, LAMBDA n : Len(n.ips) = 0)
        true_missing_ip_nsr_list == DistinctNames(missing, queryable_nsr_name_set)
        kids == [j \in 1..Len(true_missing_ip_nsr_list) |-> XzT(t, j)]
        recs == [j \in 1..Len(true_missing_ip_nsr_list) |->
                    [NewTask(t) EXCEPT !.x = ResId(true_missing_ip_nsr_list[j], "ShallowIP")]]
    IN IF IsShallow(r) /\ Len(queryable_nsr_list) > 0
       THEN AfterCross(m, t, r, phase, nsr_block)
       ELSE IF Len(true_missing_ip_nsr_list) = 0
       THEN AfterCross(m, t, r, phase, NSRBlock(nsr_block.name, queryable_nsr_list))
       ELSE [AwaitGather(SpawnChildren(m, kids, recs), t, "xz", kids)
                EXCEPT !.task[t].phase = phase, !.task[t].qlist = queryable_nsr_list,
                       !.task[t].names = true_missing_ip_nsr_list,
                       !.task[t].bname = nsr_block.name]

\* the gather of the cross-zone resolutions is complete
CrossResume(m, t, r) ==
    LET names == m.task[t].names
        res(i) == m.task[XzT(t, i)].ret_r
        Resolved[i \in 0..Len(names)] ==
            IF i = 0 THEN <<>>
            ELSE IF res(i).status = "SUCCESS" /\ Len(res(i).ips) > 0
                 THEN Append(Resolved[i - 1], NSR(names[i], res(i).ips))
                 ELSE Resolved[i - 1]
        final_nsr_list == m.task[t].qlist \o Resolved[Len(names)]
    IN AfterCross(m, t, r, m.task[t].phase, NSRBlock(m.task[t].bname, final_nsr_list))

\* one task of that gather: self._queue_resolution(ShallowIPResolution(nsr_name))
cross_zone_task_step(m, c) ==
    LET self == c.r
        a == IF m.task[c].pc = "start" THEN queue_resolution(m, c, self, m.task[c].x)
             ELSE queue_resolution_resume(m, c, self)
    IN IF a.susp THEN a.m
       ELSE TaskDone([a.m EXCEPT !.task[c].ret_r = a.val], c)

\* a variant of AuthNSResolution.resolve that answers a timeout with ERROR
TimeoutIsError(r) == RespNoData("ERROR")

\* AuthNSResolution.resolve, the else branch of "if query_response.status == 'SUCCESS'"
TimeoutResult(r) == RespBlock("WARNING", EmptyBlock(r.h))

\* AuthNSResolution.resolve from "query_response = query_response.data['NS']" on
AuthAfterDispatch(m, t, r, dns_response_list) ==
    LET entry == ResponseData(dns_response_list, "NS")
        query_response == entry.resp
        o == m.obj[r]
        cs == closest_superdomain(r.h, hosts_with_nameservers(query_response), TRUE)
        parsed == getNSRBlock(query_response, cs.found, cs.name)
        nsr_block == IF parsed.found THEN parsed.block
                     ELSE IF query_response.soa THEN o.query_target_auth_block
                     ELSE EmptyBlock(r.h)
    IN CASE ~entry.has -> TaskCrashed(m, t)                       \* KeyError
         [] query_response.status # "SUCCESS" -> SetResult(m, t, r, TimeoutResult(r))
         [] query_response.rcode # "NOERROR" -> SetResult(m, t, r, RespNoData("ERROR"))
         [] ~o.has_parent ->
              resolve_cross_zone_nsrs(m, t, r, "parent",
                                      merge(nsr_block, o.query_target_auth_block, "left"))
         [] ~o.has_child -> resolve_cross_zone_nsrs(m, t, r, "child", nsr_block)
         [] OTHER -> ResolveEnd(m, t, r)

\* IPResolution.resolve from "if 'A' not in query_response.data" on
IpAfterDispatch(m, t, r, dns_response_list) ==
    LET entry == ResponseData(dns_response_list, "A")
        query_response == entry.resp
        combined_record_list == query_response.a
        response_set == [i \in 1..Len(SelectSeq(combined_record_list,
                                                LAMBDA rr : rr.name = r.h)) |->
                            SelectSeq(combined_record_list, LAMBDA rr : rr.name = r.h)[i].rdata]
    IN CASE ~entry.has -> TaskDone(m, t)              \* returns, done_querying stays False
         [] query_response.status # "SUCCESS" -> SetResult(m, t, r, RespIps("WARNING", <<>>))
         [] query_response.rcode # "NOERROR" -> TaskCrashed(m, t)  \* response_set is unbound
         [] OTHER -> SetResult(m, t, r, RespIps("SUCCESS", response_set))

AfterDispatch(m, t, r, dns_response_list) ==
    IF IsAuth(r) THEN AuthAfterDispatch(m, t, r, dns_response_list)
    ELSE IpAfterDispatch(m, t, r, dns_response_list)

\* a variant of AuthNSResolution.resolve that has no answer of its own for "."
RootUnanswered == RespBlock("WARNING", EmptyBlock(Root))

\* AuthNSResolution.resolve, the branch of "if self.hostname == '.'"
RootResult == RespBlock("SUCCESS", get_root_nsr_block)

\* one step of the resolve task t of resolution r
resolve(m, t, r) ==
    LET pc == m.task[t].pc
        o == m.obj[r]
        m1 == IF IsAuth(r) THEN m ELSE Assign(m, r, "done_querying", FALSE)
        rtypes == IF IsAuth(r) THEN <<"NS", "A">> ELSE <<"A">>
        d == IF pc = "start"
             THEN dispatch_query(m1, t, QueryBlock(r.h, rtypes, o.query_target_auth_block))
             ELSE dispatch_resume(m, t)
    IN CASE pc = "xz" -> CrossResume(m, t, r)
         [] pc = "start" /\ IsAuth(r) /\ r.h = Root ->
              SetResult(m, t, r, RootResult)
         [] pc = "start" /\ IsAuth(r) /\ Len(o.query_target_auth_block.nsrs) = 0 ->
              SetResult(m, t, r, RespBlock("WARNING", EmptyBlock(r.h)))
         [] OTHER -> IF d.susp THEN d.m ELSE AfterDispatch(d.m, t, r, d.val)

(***************************************************************************)
(* resolution_queue.py: ResolutionQueue._run                               *)
(***************************************************************************)
\* asyncio.create_task(coro) followed by _queue_shift_tasks.append(task)
ShiftTask(m, t) ==
    LET m1 == [m EXCEPT !.task = (t :> NewTask(NoTid)) @@ @, !.shift = Append(@, t)]
    IN call_soon(m1, Step(t))

PendingBody(m, r) ==
    LET m1 == ShiftTask([m EXCEPT !.hist.loads[r] = @ + 1], LoadT(r))
    IN set_resolution_status(m1, r, "BLOCKED", "PENDING")

\* a variant of the BLOCKED loop that does not look at the status
BlockedIgnoresDone(m, r) ==
    IF m.obj[r].ready_for_querying
    THEN set_resolution_status(m, r, "ACTIVE", "BLOCKED")
    ELSE m

BlockedBody(m, r) ==
    IF m.obj[r].ready_for_querying
    THEN set_resolution_status(m, r, "ACTIVE", "BLOCKED")
    ELSE IF m.obj[r].status = "DONE"
    THEN finish(set_resolution_status(m, r, "DONE", "BLOCKED"), r)
    ELSE m

\* the resolve tasks of one resolution are counted up to MaxResolveTasks; past that
\* the resolution is left in ACTIVE for the next pass
ActiveBody(m, r) ==
    IF m.obj[r].result # NoResponse
    THEN finish(set_resolution_status(m, r, "DONE", "ACTIVE"), r)
    ELSE IF m.hist.resolves[r] >= MaxResolveTasks THEN m
    ELSE LET n == m.hist.resolves[r] + 1
             m1 == ShiftTask([m EXCEPT !.hist.resolves[r] = n], RsvT(r, n))
         IN set_resolution_status(m1, r, "QUERYING", "ACTIVE")

\* a variant of the QUERYING loop that retires a resolution straight from QUERYING
QueryingRetires(m, r) ==
    IF m.obj[r].done_querying
    THEN finish(set_resolution_status(m, r, "DONE", "QUERYING"), r)
    ELSE m

QueryingBody(m, r) ==
    IF m.obj[r].done_querying
    THEN set_resolution_status(m, r, "ACTIVE", "QUERYING")
    ELSE m

Body(m, status, r) ==
    CASE status = "PENDING" -> PendingBody(m, r)
      [] status = "BLOCKED" -> BlockedBody(m, r)
      [] status = "ACTIVE" -> ActiveBody(m, r)
      [] OTHER -> QueryingBody(m, r)

\* "for resolution in self.get_resolution_list(status)": the list is a snapshot
RECURSIVE ForEach(_, _, _)
ForEach(m, status, resolution_list) ==
    IF resolution_list = <<>> THEN m
    ELSE ForEach(Body(m, status, Head(resolution_list)), status, Tail(resolution_list))

Loop(m, status) == ForEach(m, status, m.buckets[status])

\* one iteration of the while loop, ending in "await asyncio.sleep(0)"
Pass(m) ==
    call_soon(Loop(Loop(Loop(Loop(m, "PENDING"), "BLOCKED"), "ACTIVE"), "QUERYING"),
              Step(DrvT))

is_running(m) == ~m.shutdown

\* one step of the scheduler task: _running.clear() on the first one
run(m) ==
    LET m1 == IF m.task[DrvT].pc = "start"
              THEN [m EXCEPT !.shutdown = FALSE, !.task[DrvT].pc = "loop"]
              ELSE m
    IN IF is_running(m1) THEN Pass(m1) ELSE TaskDone(m1, DrvT)

(***************************************************************************)
(* crawl_group.py, manager.py                                              *)
(***************************************************************************)
full(domains, size) == Len(domains) = size

\* CrawlGroup.add: a full group takes nothing
CrawlGroupAdd(domains, size, domain) ==
    IF full(domains, size) THEN domains ELSE Append(domains, domain)

\* Manager._create_crawl_groups: the list of the groups' domain lists
RECURSIVE create_crawl_groups(_, _, _)
create_crawl_groups(crawl_group_list, size, domains) ==
    IF domains = <<>> THEN crawl_group_list
    ELSE LET n == Len(crawl_group_list)
             opened == IF n = 0 \/ full(crawl_group_list[n], size)
                       THEN Append(crawl_group_list, <<>>)
                       ELSE crawl_group_list
             k == Len(opened)
         IN create_crawl_groups([opened EXCEPT ![k] = CrawlGroupAdd(@, size, Head(domains))],
                                size, Tail(domains))

\* ResolutionQueue.__aexit__ from "await self._task" on
AwaitDriver(m) ==
    IF Finished(m, DrvT) THEN TaskDone(m, MainT) ELSE [m EXCEPT !.task[MainT].pc = "drv"]

RECURSIVE GatherDone(_, _)
GatherDone(m, tids) ==
    IF tids = <<>> THEN m
    ELSE GatherDone(IF Finished(m, Head(tids)) THEN call_soon(m, Gcb(Head(tids))) ELSE m,
                    Tail(tids))

\* ResolutionQueue.__aexit__: _running.set(), then the gather of the shift tasks
aexit(m) ==
    LET m1 == [m EXCEPT !.shutdown = TRUE]
        m2 == [m1 EXCEPT !.task = [t \in DOMAIN @ |->
                                      IF t \in Range(m1.shift)
                                      THEN [@[t] EXCEPT !.parent = MainT] ELSE @[t]]]
    IN IF m1.shift = <<>> THEN AwaitDriver(m1)
       ELSE GatherDone(AwaitGather(m2, MainT, "shift", m1.shift), m1.shift)

\* a variant of the loop over the crawl groups that gathers the groups from g on at once
AllGroupsAtOnce(m, groups, g) ==
    LET kidsOf[h \in g..(Len(groups) + 1)] ==
            IF h > Len(groups) THEN <<>>
            ELSE [i \in 1..Len(groups[h]) |-> TopT(h, i)] \o kidsOf[h + 1]
        recsOf[h \in g..(Len(groups) + 1)] ==
            IF h > Len(groups) THEN <<>>
            ELSE [i \in 1..Len(groups[h]) |->
                     [NewTask(MainT) EXCEPT !.x = ResId(groups[h][i], "IP")]] \o recsOf[h + 1]
    IN IF g > Len(groups) \/ kidsOf[g] = <<>> THEN aexit(m)
       ELSE [AwaitGather(SpawnChildren(m, kidsOf[g], recsOf[g]), MainT, "group", kidsOf[g])
                EXCEPT !.task[MainT].stage = Len(groups)]

\* the loop over the crawl groups from group g on, up to its next suspension
RECURSIVE query_crawl_groups(_, _, _)
query_crawl_groups(m, groups, g) ==
    IF g > Len(groups) THEN aexit(m)
    ELSE LET domains == groups[g]
             kids == [i \in 1..Len(domains) |-> TopT(g, i)]
             recs == [i \in 1..Len(domains) |->
                         [NewTask(MainT) EXCEPT !.x = ResId(domains[i], "IP")]]
         IN IF domains = <<>> THEN query_crawl_groups(m, groups, g + 1)
            ELSE [AwaitGather(SpawnChildren(m, kids, recs), MainT, "group", kids)
                     EXCEPT !.task[MainT].stage = g]

\* one step of Manager.crawl_domain_list
crawl_domain_list(m, domains, size) ==
    LET crawl_group_list == create_crawl_groups(<<>>, size, domains)
        pc == m.task[MainT].pc
        \* __aenter__
        m1 == call_soon([m EXCEPT !.task = (DrvT :> NewTask(NoTid)) @@ @], Step(DrvT))
    IN CASE pc = "start" -> query_crawl_groups(m1, crawl_group_list, 1)
         [] pc = "group" -> query_crawl_groups(m, crawl_group_list, m.task[MainT].stage + 1)
         [] pc = "shift" /\ m.task[MainT].val = 1 -> TaskCrashed(m, MainT)
         [] pc = "shift" -> AwaitDriver(m)
         [] OTHER -> TaskDone(m, MainT)

\* one step of a task of _query_crawl_group's gather: resolution_queue.add(IPResolution)
top_task_step(m, t) ==
    LET a == IF m.task[t].pc = "start" THEN add(m, t, m.task[t].x, NoRes, TRUE)
             ELSE add_resume(m, t)
    IN IF a.susp THEN a.m
       ELSE TaskDone([a.m EXCEPT !.task[t].ret_r = a.val], t)

\* the done-callback gather() attached to child c: the awaiting task is woken by the
\* last result or by the first exception
gather_callback(m, c) ==
    LET p == m.task[c].parent
    IN IF ~(p \in DOMAIN m.task /\ c \in m.task[p].left) THEN m
       ELSE IF m.task[c].pc = "crashed"
       THEN call_soon([m EXCEPT !.task[p].left = {}, !.task[p].val = 1], Step(p))
       ELSE IF m.task[p].left = {c}
       THEN call_soon([m EXCEPT !.task[p].left = {}], Step(p))
       ELSE [m EXCEPT !.task[p].left = @ \ {c}]

(***************************************************************************)
(* The crawler as a state machine.  The event loop runs the handles of its *)
(* ready queue in order, each task from one suspension to the next; the    *)
(* network decides when an outstanding query is answered or times out.     *)
(***************************************************************************)
InputHosts == {HostA, HostB}
InputLists == UNION {[1..n -> InputHosts] : n \in 0..MaxInputLen}
\* -1 is the command line's default: one group takes every domain
GroupSizes == {-1, 0, 1}

PromptWorlds == {LoopWorld, GlueWorld, NxWorld}

NoBuckets == [s \in Statuses |-> <<>>]

Init ==
    /\ world \in Worlds
    \* the worlds about e. are explored for a.b.e., the rest for a. and b.
    /\ CASE world = InZoneWorld -> domain_list = <<HostABE>>
         [] world = MixWorld -> domain_list = <<HostA, HostABE>>
         [] world = ShallowWorld -> domain_list = <<HostA>>
         [] OTHER -> domain_list \in InputLists
    /\ crawl_group_size \in GroupSizes
    \* several domains in flight at once are explored on the worlds whose servers answer
    /\ world \in PromptWorlds \/ crawl_group_size = 1 \/ Len(domain_list) <= 1
    /\ buckets = NoBuckets
    /\ obj = [r \in Res |-> NoObj]
    /\ resq = AsyncQueue /\ blockq = AsyncQueue /\ queryq = AsyncQueue /\ callq = AsyncQueue
    /\ task = (MainT :> NewTask(NoTid))
    /\ ready = <<Step(MainT)>>
    /\ shutdown = FALSE
    /\ shift = <<>>
    /\ hist = NoHist

\* the handle at the head of the ready queue runs a task of kind k
Runs(k) == ready # <<>> /\ Head(ready).k = "step" /\ Head(ready).t.k = k
cur == Head(ready).t
Popped == [Machine EXCEPT !.ready = Tail(@)]

ManagerStep == Runs("main") /\ Becomes(crawl_domain_list(Popped, domain_list, crawl_group_size))
SchedulerStep == Runs("drv") /\ Becomes(run(Popped))
AddStep == Runs("top") /\ Becomes(top_task_step(Popped, cur))
LoadStep == Runs("load") /\ Becomes(load_query_target_auth_block(Popped, cur, cur.r))
ResolveStep == Runs("rsv") /\ Becomes(resolve(Popped, cur, cur.r))
CrossZoneStep == Runs("xz") /\ Becomes(cross_zone_task_step(Popped, cur))
QueryStep == Runs("qt") /\ Becomes(query_task_step(Popped, cur, world))
GatherCallback ==
    ready # <<>> /\ Head(ready).k = "gcb" /\ Becomes(gather_callback(Popped, cur))
\* the reply to, or the timeout of, an outstanding query reaches the event loop
WireArrives ==
    \E t \in DOMAIN task :
        /\ task[t].pc = "wire" /\ ~task[t].arrived
        /\ Becomes(call_soon([Machine EXCEPT !.task[t].arrived = TRUE], Step(t)))

Next ==
    \/ ManagerStep
    \/ SchedulerStep
    \/ AddStep
    \/ LoadStep
    \/ ResolveStep
    \/ CrossZoneStep
    \/ QueryStep
    \/ GatherCallback
    \/ WireArrives

Spec == Init /\ [][Next]_vars

(***************************************************************************)
(* AsyncQueue.queue_call on its own: callers arrive at any time, each with *)
(* a call id and a producer coroutine of its own that returns the caller's *)
(* number, at once or after one suspension.                                *)
(***************************************************************************)
MaxCallers == 3
CallIds == {"x", "y"}

\* a variant of a raising producer whose failure is stored and releases the waiters
RaiseIsStored(m, t, id) == TaskCrashed(QCFinish(m, "callq", id, m.task[t].val), t)

\* "res = await call.f" raises: the exception leaves queue_call at once
ProducerRaises(m, t, id) == TaskCrashed(m, t)

\* one step of a task running queue_call(AsyncQueueCall(id, f)); mode records the
\* branch, phase whether the coroutine f of this caller raises when it is run
queue_call(m, t) ==
    LET id == m.task[t].bname
        pc == m.task[t].pc
        branch == QCBranch(m.callq, id)
        started == [m EXCEPT !.callq = QCRegister(@, id),
                             !.task[t].mode = "prod",
                             !.hist.producers =
                                 IF id \in DOMAIN @ THEN [@ EXCEPT ![id] = Append(@, m.task[t].val)]
                                 ELSE (id :> <<m.task[t].val>>) @@ @]
        stored == QCFinish(IF pc = "start" THEN started ELSE m, "callq", id, m.task[t].val)
        returned(mm) == TaskDone([mm EXCEPT !.task[t].ret_l = <<QCResult(mm.callq, id)>>], t)
        raises == m.task[t].phase = "raises"
    IN CASE pc = "start" /\ branch = "active" ->
              [m EXCEPT !.callq = QCWait(@, id, t), !.task[t].pc = "wait",
                        !.task[t].mode = "wait"]
         [] pc = "start" /\ branch = "new" /\ m.task[t].stage > 0 ->
              [started EXCEPT !.task[t].pc = "prod"]
         [] pc = "start" /\ branch = "new" /\ raises -> ProducerRaises(started, t, id)
         [] pc = "start" /\ branch = "new" -> returned(stored)
         [] pc = "start" -> returned([m EXCEPT !.task[t].mode = "cached"])
         [] pc = "prod" /\ raises -> ProducerRaises(m, t, id)
         [] pc = "prod" -> returned(stored)
         [] OTHER -> returned(m)

AQInit ==
    /\ world = GlueWorld /\ domain_list = <<>> /\ crawl_group_size = -1
    /\ buckets = NoBuckets
    /\ obj = [r \in Res |-> NoObj]
    /\ resq = AsyncQueue /\ blockq = AsyncQueue /\ queryq = AsyncQueue /\ callq = AsyncQueue
    /\ task = <<>>
    /\ ready = <<>>
    /\ shutdown = FALSE
    /\ shift = <<>>
    /\ hist = NoHist

CallerArrives ==
    \E i \in 1..MaxCallers, id \in CallIds, suspensions \in {0, 1}, outcome \in {"-", "raises"} :
        /\ CallerT(i) \notin DOMAIN task
        /\ Becomes(call_soon([Machine EXCEPT !.task =
                                 (CallerT(i) :> [NewTask(NoTid) EXCEPT !.bname = id, !.val = i,
                                                                      !.stage = suspensions,
                                                                      !.phase = outcome])
                                 @@ @],
                             Step(CallerT(i))))
CallerStep == Runs("caller") /\ Becomes(queue_call(Popped, cur))
\* what a suspended producer awaits completes
ProducerResumes ==
    \E t \in DOMAIN task :
        /\ task[t].pc = "prod" /\ ~task[t].arrived
        /\ Becomes(call_soon([Machine EXCEPT !.task[t].arrived = TRUE], Step(t)))

AQNext == CallerArrives \/ CallerStep \/ ProducerResumes

AQSpec == AQInit /\ [][AQNext]_vars

(***************************************************************************)
(* QueryQueue.dispatch_query on its own: clients dispatch blocks for a. at *)
(* any time; the blocks overlap, and one lists the same triple twice.      *)
(***************************************************************************)
MaxClients == 3
BlockB == NSRBlock(HostA, <<NSR(HostB, <<IpB>>)>>)
BlockAB == NSRBlock(HostA, <<NSR(HostA, <<IpB>>), NSR(HostB, <<IpB>>)>>)
ClientBlocks == {QueryBlock(HostA, <<"NS", "A">>, BlockB), QueryBlock(HostA, <<"A">>, BlockB),
                 QueryBlock(HostA, <<"A">>, BlockAB)}

\* one step of a task running dispatch_query(query_block)
client_step(m, t) ==
    LET d == IF m.task[t].pc = "start" THEN dispatch_query(m, t, m.task[t].blk)
             ELSE dispatch_resume(m, t)
    IN IF d.susp THEN d.m
       ELSE TaskDone([d.m EXCEPT !.task[t].ret_l = d.val], t)

QQInit ==
    /\ world \in {GlueWorld, FlakyWorld} /\ domain_list = <<>> /\ crawl_group_size = -1
    /\ buckets = NoBuckets
    /\ obj = [r \in Res |-> NoObj]
    /\ resq = AsyncQueue /\ blockq = AsyncQueue /\ queryq = AsyncQueue /\ callq = AsyncQueue
    /\ task = <<>>
    /\ ready = <<>>
    /\ shutdown = FALSE
    /\ shift = <<>>
    /\ hist = NoHist

ClientArrives ==
    \E i \in 1..MaxClients, query_block \in ClientBlocks :
        /\ ClientT(i) \notin DOMAIN task
        /\ Becomes(call_soon([Machine EXCEPT !.task =
                                 (ClientT(i) :> [NewTask(NoTid) EXCEPT !.blk = query_block]) @@ @],
                             Step(ClientT(i))))
ClientStep == Runs("client") /\ Becomes(client_step(Popped, cur))
ClientQueryStep == Runs("cqt") /\ Becomes(query_task_step(Popped, cur, world))

QQNext == ClientArrives \/ ClientStep \/ ClientQueryStep \/ GatherCallback \/ WireArrives

QQSpec == QQInit /\ [][QQNext]_vars

(***************************************************************************)
(* The scheduler driven directly: inside "async with resolution_queue" one *)
(* comprehensive resolution is added whose spawned_by chain was built by   *)
(* the caller, of resolution objects that are not in the scheduler.        *)
(***************************************************************************)
LoadWorlds == {LoopWorld, GlueWorld, NxWorld}
LoadTargets == {ResId(HostA, "IP"), ResId(HostA, "AuthNS")}
\* the chains tried: none, the comprehensive AuthNS the load spawns first, and that one
\* spawned in turn by the Shallow AuthNS of the retry
SpawnedByChains(x) == {<<>>, <<LoadChild(x)>>, <<LoadChild(x), LoadRetryChild(x)>>}

\* the objects of the chain, constructed and not added
ChainObjects(x, chain) ==
    [r \in Res |->
        IF r = x /\ Len(chain) >= 1 THEN [NoObj EXCEPT !.spawned_by = chain[1]]
        ELSE IF Len(chain) = 2 /\ r = chain[1] THEN [NoObj EXCEPT !.spawned_by = chain[2]]
        ELSE NoObj]

LoadInit ==
    /\ world \in LoadWorlds
    /\ domain_list = <<>>
    /\ crawl_group_size = -1
    /\ buckets = NoBuckets
    /\ \E x \in LoadTargets : \E chain \in SpawnedByChains(x) :
          /\ obj = ChainObjects(x, chain)
          /\ task = (MainT :> [NewTask(NoTid) EXCEPT !.x = x])
    /\ resq = AsyncQueue /\ blockq = AsyncQueue /\ queryq = AsyncQueue /\ callq = AsyncQueue
    /\ ready = <<Step(MainT)>>
    /\ shutdown = FALSE
    /\ shift = <<>>
    /\ hist = NoHist

\* "async with resolution_queue: await asyncio.gather(resolution_queue.add(x))"
scope_step(m) ==
    LET m1 == call_soon([m EXCEPT !.task = (DrvT :> NewTask(NoTid)) @@ @], Step(DrvT))
        kids == <<TopT(1, 1)>>
        recs == <<[NewTask(MainT) EXCEPT !.x = m.task[MainT].x]>>
    IN IF m.task[MainT].pc = "start"
       THEN [AwaitGather(SpawnChildren(m1, kids, recs), MainT, "group", kids)
                EXCEPT !.task[MainT].stage = 1]
       ELSE crawl_domain_list(m, <<>>, -1)

\* resolution_queue.add(x) for the object x the caller constructed
scope_add_step(m, t) ==
    LET x == m.task[t].x
        a == IF m.task[t].pc = "start" THEN add(m, t, x, m.obj[x].spawned_by, FALSE)
             ELSE add_resume(m, t)
    IN IF a.susp THEN a.m
       ELSE TaskDone([a.m EXCEPT !.task[t].ret_r = a.val], t)

ScopeStep == Runs("main") /\ Becomes(scope_step(Popped))
ScopeAddStep == Runs("top") /\ Becomes(scope_add_step(Popped, cur))

LoadNext ==
    \/ ScopeStep
    \/ SchedulerStep
    \/ ScopeAddStep
    \/ LoadStep
    \/ ResolveStep
    \/ CrossZoneStep
    \/ QueryStep
    \/ GatherCallback
    \/ WireArrives

LoadSpec == LoadInit /\ [][LoadNext]_vars

(***************************************************************************)
(* Properties of the crawler (Spec)                                        *)
(***************************************************************************)
\* C1: for every identity, only the first add inserts an object into the status
\* tables and only that object is loaded; every add that finds the identity in flight
\* or finished inserts nothing, and all adds of one identity return the same response
C1_AddCoalesces ==
    \A r \in Res :
        /\ hist.inserted[r] <= 1
        /\ hist.adds[r].new <= 1
        /\ hist.loads[r] <= 1
        /\ Cardinality(hist.addret[r]) <= 1
        /\ hist.adds[r].active + hist.adds[r].done > 0 => hist.inserted[r] = 1

\* an add that waited for an identity in flight has returned what the first add
\* returned, and some add has been answered from the finished map
C1_Witness ==
    /\ \E t \in DOMAIN task :
          /\ t.k \in {"top", "load", "xz"} /\ task[t].mode = "wait" /\ task[t].pc = "done"
          /\ hist.adds[task[t].x].active >= 1
          /\ hist.addret[task[t].x] = {task[t].ret_r}
          /\ \E u \in DOMAIN task :
                u # t /\ task[u].mode = "prod" /\ task[u].x = task[t].x /\ task[u].pc = "done"
    /\ \E r \in Res : hist.adds[r].done >= 1 /\ hist.addret[r] # {}

\* every resolution inserted so far is DONE and every add call made by the manager so
\* far has returned
AllSettled ==
    /\ \A r \in Res : obj[r].exists => obj[r].status = "DONE"
    /\ \A t \in DOMAIN task : t.k = "top" => task[t].pc = "done"

\* nothing can happen any more, however the loop schedules and whatever the wire does:
\* no task is runnable but the scheduler task, no query is outstanding, and a pass of
\* the scheduler finds nothing to move
Halted ==
    /\ Range(ready) \subseteq {Step(DrvT)}
    /\ \A t \in DOMAIN task : task[t].pc # "wire"
    /\ buckets["PENDING"] = <<>> /\ buckets["ACTIVE"] = <<>>
    /\ \A r \in Range(buckets["BLOCKED"]) :
          ~obj[r].ready_for_querying /\ obj[r].status # "DONE"
    /\ \A r \in Range(buckets["QUERYING"]) : ~obj[r].done_querying

\* C2: every resolution that is inserted reaches DONE and every add call returns, under
\* any fair schedule and with every wire query returning; so the program never comes to
\* a halt with an inserted resolution short of DONE or an add call pending
C2_EveryResolutionTerminates == ~(Halted /\ ~AllSettled)

\* p has a task suspended in add(x), and both are in flight
AwaitsIn(p, x) ==
    /\ obj[p].exists /\ obj[p].status # "DONE" /\ obj[x].exists /\ obj[x].status # "DONE"
    /\ \E t \in DOMAIN task :
          t.k \in {"load", "xz"} /\ t.r = p /\ task[t].pc = "add" /\ task[t].x = x
\* the largest subset of S in which every member awaits a member
RECURSIVE WaitingCore(_)
WaitingCore(S) ==
    LET kept == {p \in S : \E x \in S : AwaitsIn(p, x)}
    IN IF kept = S THEN S ELSE WaitingCore(kept)

\* C3: no set of in-flight resolutions in which each is suspended in add awaiting
\* another member of the set
C3_NoCircularWait == WaitingCore({p \in Res : obj[p].exists /\ obj[p].status # "DONE"}) = {}

\* C4: result is assigned at most once per resolution, and no field of a resolution is
\* assigned once its status is DONE
C4_ResultWrittenOnce ==
    /\ \A r \in Res : hist.rwrites[r] <= 1
    /\ hist.late = {}

ResolveTasks(r) == {t \in DOMAIN task : t.k = "rsv" /\ t.r = r}
\* C5: a resolve task exists only after the load task has finished, at most one resolve
\* task of a resolution is unfinished at any time, and a resolution is given at most two
\* resolve tasks if it is an AuthNS one, one if it is an IP one
C5_PhaseOrder ==
    \A r \in Res :
        /\ ResolveTasks(r) # {} => Finished(Machine, LoadT(r))
        /\ Cardinality({t \in ResolveTasks(r) : ~Finished(Machine, t)}) <= 1
        /\ hist.resolves[r] <= (IF IsAuth(r) THEN 2 ELSE 1)

AllowedTransitions ==
    {<<"PENDING", "BLOCKED">>, <<"BLOCKED", "ACTIVE">>, <<"BLOCKED", "DONE">>,
     <<"ACTIVE", "QUERYING">>, <<"QUERYING", "ACTIVE">>, <<"ACTIVE", "DONE">>}
\* C6: the status of a resolution changes only along the six listed transitions, so
\* never out of DONE, never QUERYING->DONE, never PENDING->ACTIVE
C6_StatusTransitions == hist.trans \subseteq AllowedTransitions

\* one run has made every one of the six transitions
C6_Witness == hist.trans = AllowedTransitions

\* C7: in every state the _done event of a resolution is set exactly if its status is DONE
C7_DoneIffStatusDone ==
    \A r \in Res : obj[r].exists => (obj[r].done <=> obj[r].status = "DONE")

\* C11: a _queue_resolution call that the tree check answers with LOOP_DETECTED never
\* reaches add(), so it records no spawned child, inserts nothing into a status table
\* and registers nothing in the call cache; hence the spawned children of a resolution
\* never hold an identity of its spawned_by chain, no spawned_by chain repeats an
\* identity, and a resolution exists only if some add() was called for it
C11_LoopNotEnqueued ==
    /\ \A l \in hist.loops : <<l[1], l[3]>> \notin hist.addby
    /\ \A p \in Res :
          obj[p].exists =>
              /\ DOMAIN obj[p].kids \cap Range(Ancestors(Machine, p)) = {}
              /\ p \notin Range(Ancestors(Machine, p))
              /\ \E t \in DOMAIN task : <<t, p>> \in hist.addby
    /\ \A x \in Res :
          (is_active(resq, x) \/ is_done(resq, x)) => \E t \in DOMAIN task : <<t, x>> \in hist.addby

\* LOOP_DETECTED has been returned once for an identity of the caller's spawned_by
\* chain, which is no spawned child of the caller, and once for an identity found by
\* the forward walk only
C11_Witness ==
    /\ \E l \in hist.loops :
          l[3] \in Range(Ancestors(Machine, l[2])) /\ l[3] \notin DOMAIN obj[l[2]].kids
    /\ \E l \in hist.loops : l[3] \notin Range(Ancestors(Machine, l[2]))

\* __aexit__ has set the shutdown flag
Teardown == task[MainT].pc \in {"shift", "drv", "done", "crashed"}

\* C12: once teardown has set the shutdown flag the scheduler task observes it and
\* exits: from then on the flag stays set and the scheduler task, until it has
\* returned, is scheduled to make the check that ends it
C12_DriverExitsAfterShutdown ==
    Teardown => \/ Finished(Machine, DrvT)
                \/ shutdown /\ Step(DrvT) \in Range(ready)

\* the program has come to rest: nothing is ready to run and no query is outstanding
AtRest == ready = <<>> /\ \A t \in DOMAIN task : task[t].pc # "wire"

\* C13: teardown completes, every load and resolve task the scheduler spawned runs to
\* its end; so the program never comes to rest in teardown with a spawned task still
\* suspended
C13_TeardownCompletes ==
    ~(Teardown /\ AtRest /\ \E t \in Range(shift) : ~Finished(Machine, t))

\* the crawl groups the manager makes of its input
Groups == create_crawl_groups(<<>>, crawl_group_size, domain_list)

\* C14: the add() of an IPResolution of a crawl group is started only when the add()
\* of every IPResolution of every earlier group has returned
C14_GroupsInWaves ==
    \A t \in DOMAIN task :
        t.k = "top" =>
            \A g \in 1..(t.n - 1) : \A i \in 1..Len(Groups[g]) :
                TopT(g, i) \in DOMAIN task /\ task[TopT(g, i)].pc = "done"

\* the resolution of the second of two groups with different hostnames has been added
C14_Witness ==
    /\ Len(Groups) = 2 /\ Groups[1] # <<>> /\ Groups[1] # Groups[2]
    /\ TopT(2, 1) \in DOMAIN task
    /\ <<TopT(2, 1), task[TopT(2, 1)].x>> \in hist.addby

Comprehensive == {r \in Res : r.t \in {"IP", "AuthNS"}}
FirstAnswers(r) == {a \in hist.answers : a[1] = r /\ a[2] = 1}
RetryAnswers(r) == {a \in hist.answers : a[1] = r /\ a[2] = 2}
\* the load of r has returned through its short-circuit with response res
ShortCircuit(r, res) ==
    /\ Finished(Machine, LoadT(r))
    /\ res.status \in {"ERROR", "LOOP_DETECTED"}
    /\ IF \E a \in FirstAnswers(r) : a[3].status = "LOOP_DETECTED"
       THEN <<r, 2, res>> \in hist.answers ELSE <<r, 1, res>> \in hist.answers

\* C15: in the load of a comprehensive resolution a LOOP_DETECTED first answer is
\* followed by one _queue_resolution of the Shallow AuthNS of the same hostname and no
\* other answer is; when the answer then in hand is ERROR or LOOP_DETECTED the
\* resolution has that response as its result and status DONE, no resolve task is ever
\* made for it, and until its _done event is set it sits in the BLOCKED table of a
\* running scheduler task, whose next pass sets the event
C15_LoopRetryThenShortCircuit ==
    \A r \in Comprehensive :
        /\ Cardinality(FirstAnswers(r)) <= 1 /\ Cardinality(RetryAnswers(r)) <= 1
        /\ \A a \in FirstAnswers(r) :
              LET retry == ResId(LoadChild(r).h, "ShallowAuthNS")
                  retried == \/ <<LoadT(r), retry>> \in hist.addby
                             \/ <<LoadT(r), r, retry>> \in hist.loops
              IN /\ a[3].status = "LOOP_DETECTED" => retried
                 /\ a[3].status # "LOOP_DETECTED" => ~retried /\ RetryAnswers(r) = {}
        /\ \A res \in {a[3] : a \in hist.answers} :
              ShortCircuit(r, res) =>
                  /\ obj[r].result = res /\ obj[r].status = "DONE"
                  /\ hist.resolves[r] = 0
                  /\ \/ obj[r].done
                     \/ /\ r \in Range(buckets["BLOCKED"]) /\ ~obj[r].ready_for_querying
                        /\ ~shutdown /\ Step(DrvT) \in Range(ready)

\* a comprehensive resolution whose first answer was LOOP_DETECTED has taken the ERROR
\* answer of its Shallow retry as its result and its _done event is set
C15_Witness ==
    \E r \in Comprehensive : \E res \in {a[3] : a \in RetryAnswers(r)} :
        res.status = "ERROR" /\ ShortCircuit(r, res) /\ obj[r].done

\* C16: once a resolve task of an IP resolution has returned from a block response
\* without an entry for rtype A (the block held no query), the result of the resolution
\* is ERROR
C16_NoARecordIsError ==
    \A r \in Res : \A t \in ResolveTasks(r) :
        (~IsAuth(r) /\ task[t].pc = "done" /\ to_query_list(task[t].blk) = <<>>)
        => obj[r].result.status = "ERROR"

\* C17: where the one address of the name server of the input hostnames never answers,
\* the resolution of an input hostname terminates with WARNING and empty data; so the
\* program does not halt there with an add() of the manager pending or returned otherwise
C17_TimeoutsEndInWarning ==
    (world = DeadWorld /\ Halted) =>
        \A t \in DOMAIN task :
            t.k = "top" => task[t].pc = "done" /\ task[t].ret_r = RespIps("WARNING", <<>>)

\* C18: with the in-zone loop, IPResolution(a.b.e.) terminates with SUCCESS; so the
\* program does not halt there with the manager's add() pending or returned otherwise
C18_InZoneLoopSucceeds ==
    (world = InZoneWorld /\ crawl_group_size # 0 /\ Halted) =>
        /\ TopT(1, 1) \in DOMAIN task
        /\ task[TopT(1, 1)].pc = "done"
        /\ task[TopT(1, 1)].ret_r.status = "SUCCESS"

\* the NS response a finished resolve task of r received from dispatch_query
NSResponseOf(t) ==
    ResponseData(QCResult(blockq, QueryBlockId(task[t].blk)), "NS")
Dispatched(t) == task[t].pc = "done" /\ task[t].blk # NoBlockQuery
\* the resolve task returned without dispatching: the target block had no NSR
ZeroNSRs(r, t) == task[t].pc = "done" /\ task[t].blk = NoBlockQuery /\ r.h # Root

\* C19: once a resolve task of an AuthNS resolution has returned, in either phase: if
\* its NS response had status SUCCESS and an rcode other than NOERROR the result is
\* ERROR without data; if the response had status TIMEOUT, or the target block had no
\* NSR, the result is WARNING with an empty NSRBlock named after the hostname
C19_AuthNSFailureResults ==
    \A r \in Res : \A t \in ResolveTasks(r) :
        IsAuth(r) =>
            /\ (Dispatched(t) /\ NSResponseOf(t).has) =>
                  LET query_response == NSResponseOf(t).resp
                  IN /\ (query_response.status = "SUCCESS" /\ query_response.rcode # "NOERROR")
                        => obj[r].result = RespNoData("ERROR")
                     /\ query_response.status = "TIMEOUT"
                        => obj[r].result = RespBlock("WARNING", EmptyBlock(r.h))
            /\ ZeroNSRs(r, t) => obj[r].result = RespBlock("WARNING", EmptyBlock(r.h))

\* one run has seen all three: an rcode other than NOERROR in the first phase, a
\* TIMEOUT in the second phase, and a target block without NSRs
C19_Witness ==
    /\ \E r \in Res : \E t \in ResolveTasks(r) :
          /\ IsAuth(r) /\ Dispatched(t) /\ ~obj[r].has_parent
          /\ NSResponseOf(t).resp.status = "SUCCESS" /\ NSResponseOf(t).resp.rcode # "NOERROR"
          /\ obj[r].result.status = "ERROR"
    /\ \E r \in Res : \E t \in ResolveTasks(r) :
          /\ IsAuth(r) /\ Dispatched(t) /\ obj[r].has_parent
          /\ NSResponseOf(t).resp.status = "TIMEOUT"
          /\ obj[r].result.status = "WARNING"
    /\ \E r \in Res : \E t \in ResolveTasks(r) :
          IsAuth(r) /\ ZeroNSRs(r, t) /\ obj[r].result.status = "WARNING"

\* the AuthNS resolutions for ".", of either class
RootAuthNS == {r \in Res : IsAuth(r) /\ r.h = Root}

\* C20: an AuthNS resolution for "." spawns no sub-resolution (none of its tasks calls
\* add, and it has no cross-zone task), none of its tasks dispatches a query block or
\* has a query task, whenever it is DONE its result is SUCCESS with the root-hint block,
\* and once the program has come to rest every such resolution that was inserted is DONE
C20_RootAnsweredFromHints ==
    \A r \in RootAuthNS :
        /\ \A a \in hist.addby : a[1].r # r
        /\ \A t \in DOMAIN task :
              t.r = r => t.k \in {"load", "rsv"} /\ task[t].blk = NoBlockQuery
        /\ obj[r].status = "DONE"
              => obj[r].result = RespBlock("SUCCESS", get_root_nsr_block)
        /\ (Halted /\ hist.inserted[r] > 0) => obj[r].status = "DONE"

\* the program is at rest, "." was resolved by both classes with one load and one
\* resolve task each, and query blocks were dispatched for other resolutions
C20_Witness ==
    /\ Halted
    /\ \A r \in RootAuthNS :
          /\ hist.inserted[r] = 1 /\ obj[r].status = "DONE"
          /\ Finished(Machine, LoadT(r)) /\ ResolveTasks(r) # {}
    /\ \E t \in DOMAIN task : task[t].blk # NoBlockQuery

\* the tasks of the input entries that name hostname h, and those that have returned
EntryTasks(h) == {t \in DOMAIN task : t.k = "top" /\ task[t].x = ResId(h, "IP")}
EntriesReturned(h) == {t \in EntryTasks(h) : task[t].pc = "done"}

\* C21: the manager's callback has been invoked once for every entry of the input list
\* whose add() has returned, repeated hostnames included: per hostname, as many
\* completions have been reported as entries have completed
C21_CompletionPerEntry ==
    \A h \in Hosts :
        Cardinality(EntriesReturned(h)) <= hist.callbacks[ResId(h, "IP")]

RECURSIVE Flatten(_)
Flatten(seqs) == IF seqs = <<>> THEN <<>> ELSE Head(seqs) \o Flatten(Tail(seqs))

\* C22: once the manager has made its crawl groups, the groups taken in order
\* concatenate to the input list; for a group size G >= 1 every group but the last
\* holds exactly G hostnames, and for G = -1 there is at most one group
C22_GroupsPartitionInput ==
    task[MainT].pc # "start" =>
        /\ Flatten(Groups) = domain_list
        /\ crawl_group_size >= 1 =>
              \A g \in 1..(Len(Groups) - 1) : Len(Groups[g]) = crawl_group_size
        /\ crawl_group_size = -1 => Len(Groups) <= 1

\* the identities held QUEUED in the children maps kids of the resolutions of S
QueuedKids(kids, S) ==
    {k \in Res : \E n \in S : k \in DOMAIN kids[n] /\ kids[n][k].st = "QUEUED"}
\* the identities that chains of QUEUED entries lead to from those of S
RECURSIVE QueuedBelow(_, _)
QueuedBelow(kids, S) ==
    LET T == S \cup QueuedKids(kids, S)
    IN IF T = S THEN S ELSE QueuedBelow(kids, T)
\* the head of the tree of resolution r: the end of its spawned_by chain
TreeHead(r) ==
    LET resolutions == Ancestors(Machine, r)
    IN IF resolutions = <<>> THEN r ELSE resolutions[Len(resolutions)]

\* C23: every LOOP_DETECTED answer is owed to an identity of the caller's spawned_by
\* chain or to a chain of entries that were QUEUED when the check ran: an entry that has
\* become DEQUEUED, and what only it leads to, makes no enqueue attempt fail
C23_DequeuedDoesNotBlock ==
    \A l \in hist.hits :
        LET self == l[1]
            other == l[2]
            kids == l[3]
        IN \/ other \in Range(Ancestors(Machine, self))
           \/ other \in QueuedBelow(kids, QueuedKids(kids, {TreeHead(self)}))

\* a resolution enqueued an identity again whose entry in its children map was
\* DEQUEUED, and that call reached add(): no LOOP_DETECTED was returned for the pair
C23_Witness ==
    \E q \in hist.requeued :
        /\ \A l \in hist.loops : <<l[2], l[3]>> # q
        /\ obj[q[1]].kids[q[2]].st = "DEQUEUED"
        /\ hist.adds[q[2]].done > 0

\* the identities that chains of QUEUED entries lead to from those of S without
\* passing through the children map of resolution p
RECURSIVE QueuedOutside(_, _, _)
QueuedOutside(kids, S, p) ==
    LET T == S \cup QueuedKids(kids, S \ {p})
    IN IF T = S THEN S ELSE QueuedOutside(kids, T, p)

\* C24: the forward walk of the check run by P leaves out P's own subtree: every
\* LOOP_DETECTED answer is owed to an identity of P's spawned_by chain or to a chain of
\* QUEUED entries from the head of the tree that does not pass through P's children map
C24_OwnSubtreeExcluded ==
    \A l \in hist.hits :
        LET P == l[1]
            other == l[2]
            kids == l[3]
        IN \/ other \in Range(Ancestors(Machine, P))
           \/ other \in QueuedOutside(kids, QueuedKids(kids, {TreeHead(P)} \ {P}), P)

HasQueryableNSR(block) == \E i \in 1..Len(block.nsrs) : Len(block.nsrs[i].ips) > 0

\* C25: a Shallow resolution asks only for Shallow resolutions, in its load and in its
\* cross-zone resolution, so every resolution below a Shallow one is Shallow; and a
\* ShallowAuthNS resolve task has cross-zone tasks only if the block it was given held
\* no NSR with an IP
C25_ShallowStaysShallow ==
    /\ \A a \in hist.addby : IsShallow(a[1].r) => IsShallow(a[2])
    /\ \A l \in hist.loops : IsShallow(l[2]) => IsShallow(l[3])
    /\ \A p \in Res :
          obj[p].exists =>
              /\ IsShallow(p) => \A k \in DOMAIN obj[p].kids : IsShallow(k)
              /\ \A q \in Range(Ancestors(Machine, p)) : IsShallow(q) => IsShallow(p)
    /\ \A t \in DOMAIN task :
          (t.k = "xz" /\ IsShallow(t.r)) => task[RsvT(t.r, t.n)].qlist = <<>>

\* the first resolve task of a ShallowAuthNS resolution took a block holding an NSR
\* with an IP as it was, without any cross-zone task, and a resolve task of a
\* ShallowAuthNS resolution, given a block without IPs, has added a ShallowIP
\* resolution in a cross-zone task
C25_Witness ==
    /\ \E r \in Res :
          /\ r.t = "ShallowAuthNS" /\ r.h # Root
          /\ obj[r].has_parent /\ HasQueryableNSR(obj[r].auth_parent)
          /\ Finished(Machine, RsvT(r, 1))
          /\ \A t \in DOMAIN task : (t.r = r /\ t.n = 1) => t.k # "xz"
    /\ \E t \in DOMAIN task :
          /\ t.k = "xz" /\ t.r.t = "ShallowAuthNS" /\ task[t].pc = "done"
          /\ task[t].x.t = "ShallowIP" /\ <<t, task[t].x>> \in hist.addby

\* the tasks that ran Resolver.query for the Query with this id
QueryTasks(id) == {c \in DOMAIN task : c.k \in {"qt", "cqt"} /\ QueryId(task[c].q) = id}
EmptyMessage(resp) == resp.rcode = "NOERROR" /\ resp.ns = <<>> /\ resp.a = <<>> /\ ~resp.soa

\* C26: no Resolver.query counts more than three timeouts; a query that returned
\* SUCCESS was answered on the first attempt the server answers, after at most two
\* timeouts; a query that returned TIMEOUT has seen three timeouts and carries an
\* empty message
C26_AtMostThreeAttempts ==
    /\ \A c \in DOMAIN task : task[c].retry_count <= 3
    /\ \A id \in DOMAIN queryq.past_calls :
          LET resp == queryq.past_calls[id]
          IN /\ resp.status \in {"SUCCESS", "TIMEOUT"}
             /\ resp.status = "SUCCESS" =>
                   /\ \A c \in QueryTasks(id) : task[c].retry_count <= 2
                   /\ \E c \in QueryTasks(id) :
                         task[c].retry_count = world.timeouts[task[c].q.nsr_ip]
             /\ resp.status = "TIMEOUT" =>
                   /\ EmptyMessage(resp)
                   /\ \E c \in QueryTasks(id) : task[c].retry_count = 3

\* in one run a query was answered on its third attempt and another gave up after
\* its third timeout
C26_Witness ==
    /\ \E id \in DOMAIN queryq.past_calls :
          /\ queryq.past_calls[id].status = "SUCCESS"
          /\ \E c \in QueryTasks(id) : task[c].pc = "done" /\ task[c].retry_count = 2
    /\ \E id \in DOMAIN queryq.past_calls :
          /\ queryq.past_calls[id].status = "TIMEOUT"
          /\ \E c \in QueryTasks(id) : task[c].pc = "done" /\ task[c].retry_count = 3

\* C27: the retry backoff is a suspension point: a step in which Resolver.query counts
\* a timeout ends with the query suspended in its backoff, neither sent again nor
\* returned, so that other tasks run before the next attempt
C27_BackoffIsSuspension ==
    [][\A c \in DOMAIN task :
          (c \in DOMAIN task' /\ task'[c].retry_count > task[c].retry_count)
              => task'[c].pc = "backoff"]_vars

\* the status tables that hold resolution r
BucketsOf(r) == {s \in DOMAIN buckets : r \in Range(buckets[s])}
InOwnBucket(r) == BucketsOf(r) = {obj[r].status}

\* C28: when the scheduler task yields at the end of a pass over the status tables,
\* every resolution that was inserted is held in exactly one table, the table of its
\* own status field
C28_BucketMatchesStatus ==
    [][(SchedulerStep /\ Step(DrvT) \in Range(ready'))
          => \A r \in Res : hist.inserted[r] > 0 => InOwnBucket(r)']_vars

\* the scheduler task is at its yield point, a resolution whose load set its status to
\* DONE has been moved to the DONE table, and others are held in BLOCKED and QUERYING
C28_Witness ==
    /\ Step(DrvT) \in Range(ready)
    /\ \E r \in Res :
          /\ hist.inserted[r] > 0 /\ ResolveTasks(r) = {}
          /\ obj[r].status = "DONE" /\ InOwnBucket(r)
    /\ buckets["BLOCKED"] # <<>> /\ buckets["QUERYING"] # <<>>
    /\ \A r \in Res : hist.inserted[r] > 0 => InOwnBucket(r)

\* C29: every resolve task that has ended has returned normally and left done_querying
\* set, and, for an IP resolution, result set
C29_ResolveAlwaysCompletes ==
    \A r \in Res : \A t \in ResolveTasks(r) :
        Finished(Machine, t) =>
            /\ task[t].pc = "done"
            /\ obj[r].done_querying
            /\ ~IsAuth(r) => obj[r].result # NoResponse

\* C30: the target block of an AuthNS or ShallowAuthNS resolution is never a block of
\* NSRs without any IP; every query block such a resolution dispatches has a target
\* with at least one IP, its block response holds an entry for rtype NS, and no
\* resolve task of such a resolution ends with an exception
C30_DispatchedTargetHasIP ==
    \A r \in Res :
        IsAuth(r) =>
            /\ obj[r].has_target =>
                  \/ obj[r].query_target_auth_block.nsrs = <<>>
                  \/ HasQueryableNSR(obj[r].query_target_auth_block)
            /\ \A t \in ResolveTasks(r) :
                  /\ task[t].blk # NoBlockQuery => HasQueryableNSR(task[t].blk.nsr_block)
                  /\ Dispatched(t) => NSResponseOf(t).has
                  /\ task[t].pc # "crashed"

\* one AuthNS resolution was given an empty target block, another one has dispatched,
\* in its second phase, the block that its cross-zone resolution returned, and one
\* has dispatched, in its first phase, the root hints
C30_Witness ==
    /\ \E r \in Res :
          IsAuth(r) /\ r.h # Root /\ obj[r].has_target
          /\ obj[r].query_target_auth_block.nsrs = <<>>
    /\ \E r \in Res : \E t \in ResolveTasks(r) :
          /\ r.t = "AuthNS" /\ t.n >= 2 /\ Dispatched(t) /\ NSResponseOf(t).has
          /\ task[t].blk.nsr_block = obj[r].auth_parent
          /\ task[t].blk.nsr_block # get_root_nsr_block
    /\ \E r \in Res : \E t \in ResolveTasks(r) :
          /\ IsAuth(r) /\ t.n = 1 /\ Dispatched(t) /\ NSResponseOf(t).has
          /\ task[t].blk.nsr_block = get_root_nsr_block

(***************************************************************************)
(* Properties of AsyncQueue.queue_call (AQSpec)                            *)
(***************************************************************************)
Callers == {t \in DOMAIN task : t.k = "caller"}
\* C8: for every call id at most one producer is ever run, and every caller of that id
\* that has returned, whichever branch it took, returned the first producer's value
C8_OneProducerOneValue ==
    /\ \A id \in DOMAIN hist.producers : Len(hist.producers[id]) <= 1
    /\ \A t \in Callers :
          task[t].pc = "done" =>
              /\ task[t].bname \in DOMAIN hist.producers
              /\ task[t].ret_l = <<hist.producers[task[t].bname][1]>>

\* three callers of one id have returned: the producer, one that waited for it, and
\* one that came after it finished
C8_Witness ==
    \E id \in CallIds :
        \A mode \in {"prod", "wait", "cached"} :
            \E t \in Callers : task[t].bname = id /\ task[t].mode = mode /\ task[t].pc = "done"

\* C9: the step of queue_call that starts with its id in the finished map ends the call
\* in that step with the stored value, runs no producer and changes neither map
C9_FinishedIdFrame ==
    [][\A t \in Callers :
          (/\ task[t].pc = "start" /\ task'[t].pc # "start"
           /\ task[t].bname \in DOMAIN callq.past_calls)
          => /\ task'[t].pc = "done"
             /\ task'[t].ret_l = <<callq.past_calls[task[t].bname]>>
             /\ hist'.producers = hist.producers
             /\ callq'.past_calls = callq.past_calls
             /\ callq'.active_calls = callq.active_calls]_vars

\* a caller that arrived with a suspending producer for a finished id has returned
C9_Witness ==
    \E t \in Callers :
        /\ task[t].mode = "cached" /\ task[t].pc = "done" /\ task[t].stage = 1
        /\ hist.producers[task[t].bname] # <<task[t].val>>

\* the callers whose producer raised inside queue_call
Raised == {t \in Callers : task[t].pc = "crashed"}
SameId(t) == {u \in Callers \ {t} : task[u].bname = task[t].bname}

\* C31: once the producer of a call id has raised, nothing is stored as finished for
\* the id and the id stays in flight; no other caller with that id has returned or is
\* scheduled to return: those that ran are suspended on the Event, which nobody sets
C31_RaisedProducerBlocksId ==
    \A t \in Raised :
        LET id == task[t].bname
        IN /\ ~is_done(callq, id) /\ is_active(callq, id)
           /\ \A u \in SameId(t) :
                 /\ task[u].pc \in {"start", "wait"}
                 /\ task[u].pc = "wait" =>
                       u \in Range(callq.waiters[id]) /\ Step(u) \notin Range(ready)

\* a producer that was suspended has raised, and two other callers with its id are
\* suspended on the Event with nothing left to run
C31_Witness ==
    \E t \in Raised :
        /\ task[t].stage = 1
        /\ Cardinality({u \in SameId(t) : task[u].pc = "wait"}) = 2
        /\ ready = <<>>

(***************************************************************************)
(* Properties of QueryQueue.dispatch_query (QQSpec)                        *)
(***************************************************************************)
Clients == {t \in DOMAIN task : t.k = "client"}
IdsOf(query_block) ==
    {QueryId(to_query_list(query_block)[j]) : j \in 1..Len(to_query_list(query_block))}
\* C10: Resolver.query is run at most once per Query id, and once the dispatch of a
\* block has returned, exactly once for each Query id of the block
C10_OneWireQueryPerId ==
    /\ \A id \in DOMAIN hist.wire : hist.wire[id] = 1
    /\ \A t \in Clients :
          task[t].pc = "done" => IdsOf(task[t].blk) \subseteq DOMAIN hist.wire

\* dispatches have returned for two identical blocks and for a different block that
\* shares a query with them and lists that query twice
C10_Witness ==
    \E t, u, v \in Clients :
        /\ task[t].pc = "done" /\ task[u].pc = "done" /\ task[v].pc = "done"
        /\ t # u /\ task[t].blk = task[u].blk
        /\ task[v].blk # task[t].blk
        /\ IdsOf(task[v].blk) \cap IdsOf(task[t].blk) # {}
        /\ Len(to_query_list(task[v].blk)) > Cardinality(IdsOf(task[v].blk))

====
